---- MODULE Spec2Model ----
(***************************************************************************)
(* Model of pkg/repository/manifest/repo.go: the bootstrap of a manifest   *)
(* repository (Init) and the operations that wire the four manifests       *)
(* together (SetVersions, SetSnapshot, SetRole).                           *)
(*                                                                         *)
(* It also models the TiCDC client of pkg/cluster/api/cdcapi.go            *)
(* (DrainCapture, ResignOwner) and PreRestart of pkg/cluster/spec/cdc.go.  *)
(*                                                                         *)
(* The specifications share the variables:                                 *)
(*   Spec        one call of Init, one action per statement of its body;   *)
(*   SpecLedger  SetVersions / SetSnapshot applied repeatedly by a caller  *)
(*               to a Snapshot and a Timestamp, between version bumps;     *)
(*   SpecRole    SetRole applied repeatedly by a caller to a Root;         *)
(*   SpecSign    SignAndWrite applied by a caller to the manifests;        *)
(*   SpecConcurrent  two calls of Init persisting to one destination;      *)
(*   SpecDrain   one call of CDCOpenAPIClient.DrainCapture;                *)
(*   SpecResign  one call of CDCOpenAPIClient.ResignOwner;                 *)
(*   SpecPreRestart  one call of CDCInstance.PreRestart (spec/cdc.go).     *)
(***************************************************************************)
EXTENDS FiniteSets, Integers, Sequences, TLC

VARIABLES
    types,        \* the registry `types`: kind -> [filename, expire, threshold]
    initTime,     \* Init's argument initTime
    manifests,    \* the map `manifests`: kind -> manifest payload
    pc,           \* position in Init's body ("ops" in the caller specifications)
    visited,      \* kinds the `range types` loop has already delivered
    err,          \* the error Init returned (kind "none" while there is none)
    saved,        \* files written by batchSaveManifests: filename -> payload
    saveCalls,    \* number of invocations of batchSaveManifests
    lastOp,       \* the operation a caller applied last (caller specifications)
    hashed,       \* the Snapshot payloads the current Timestamp entry was computed from
    \* two calls of Init on one destination
    writers,      \* call -> [pc, initTime, files, pending, err]
    dst,          \* the destination directory: filename -> the file in place
    \* the TiCDC client
    cdcPc,        \* position in DrainCapture / ResignOwner ("idle" elsewhere)
    apiTimeout,   \* DrainCapture's argument apiTimeoutSeconds
    tables,       \* tables the target capture still holds, on the server
    elapsed,      \* seconds since utils.Retry started
    attempts,     \* calls of the retried function so far
    lastAttempt,  \* what the last call of drainCapture returned, and the reply deciding it
    retryErr,     \* the error utils.Retry / tryURLs / GetOwner ended with ("none" when nil)
    cdcRet,       \* what the client method returned: "none" (not yet), "nil" or the error
    captures,     \* the captures of the cluster, in the order the server lists them
    owner         \* the *Capture GetOwner returned: an index of captures, 0 for nil

repoVars == <<types, initTime, manifests, pc, visited, err, saved, saveCalls, lastOp, hashed>>
concVars == <<writers, dst>>
cdcVars == <<cdcPc, apiTimeout, tables, elapsed, attempts, lastAttempt, retryErr, cdcRet,
             captures, owner>>
vars == <<repoVars, concVars, cdcVars>>

(***************************************************************************)
(* Bounds of the model.                                                    *)
(***************************************************************************)
MaxThreshold == 2
MaxExpire == 2
MaxTime == 1
MaxVersion == 2

(***************************************************************************)
(* Manifest kinds and the registry.                                        *)
(***************************************************************************)
ManifestTypeRoot == "root"
ManifestTypeIndex == "index"
ManifestTypeSnapshot == "snapshot"
ManifestTypeTimestamp == "timestamp"
ManifestTypeComponent == "component"

CoreKinds == {ManifestTypeRoot, ManifestTypeIndex, ManifestTypeSnapshot, ManifestTypeTimestamp}

\* Kinds a registry may declare beyond the four core ones: the placeholder
\* Component (no filename) and two kinds with a filename that Init never builds.
RequiredExtraKinds == {"mirrors", "targets"}
OptionalKinds == {ManifestTypeComponent} \cup RequiredExtraKinds

FilenameOf(k) ==
    IF k = ManifestTypeComponent THEN "" ELSE k \o ".json"

\* One registry: the core kinds, the optional kinds `opt`, thresholds tRoot for
\* Root and tRest for the others, expiry eLong for Root/Index and eShort for the rest.
Registry(opt, tRoot, tRest, eLong, eShort) ==
    [k \in CoreKinds \cup opt |->
        [filename  |-> FilenameOf(k),
         expire    |-> IF k \in {ManifestTypeRoot, ManifestTypeIndex} THEN eLong ELSE eShort,
         threshold |-> IF k = ManifestTypeRoot THEN tRoot ELSE tRest]]

Registries ==
    {Registry(opt, tRoot, tRest, eLong, eShort) :
        opt \in SUBSET OptionalKinds,
        tRoot \in 1..MaxThreshold, tRest \in 1..MaxThreshold,
        eLong \in 1..MaxExpire, eShort \in 1..MaxExpire}

\* types[k] of a Go map: the zero value when the key is absent.
TypeOf(k) ==
    IF k \in DOMAIN types THEN types[k]
    ELSE [filename |-> "", expire |-> 0, threshold |-> 0]

(***************************************************************************)
(* Go maps: nil or made, with their entries.                               *)
(***************************************************************************)
EmptyFn == [k \in {} |-> 0]
NilMap == [isNil |-> TRUE, kv |-> EmptyFn]
MakeMap == [isNil |-> FALSE, kv |-> EmptyFn]

\* m[k] = v on a map that is not nil.
MapPut(m, k, v) ==
    [isNil |-> FALSE,
     kv |-> [x \in DOMAIN m.kv \cup {k} |-> IF x = k THEN v ELSE m.kv[x]]]

Keys(m) == DOMAIN m.kv

(***************************************************************************)
(* Manifest payloads.                                                      *)
(***************************************************************************)
CurrentSpecVersion == "0.1.0"

\* time.Time.Format(time.RFC3339) of the instant t
FormatRFC3339(t) == [layout |-> "RFC3339", instant |-> t]

\* m.Base().Filename() / m.Filename()
Filename(m) == TypeOf(m.Ty).filename

NewRoot(t) ==
    [Ty          |-> ManifestTypeRoot,
     SpecVersion |-> CurrentSpecVersion,
     Expires     |-> FormatRFC3339(t + TypeOf(ManifestTypeRoot).expire),
     Version     |-> 1,
     Roles       |-> MakeMap]

NewIndex(t) ==
    [Ty          |-> ManifestTypeIndex,
     SpecVersion |-> CurrentSpecVersion,
     Expires     |-> FormatRFC3339(t + TypeOf(ManifestTypeIndex).expire),
     Version     |-> 1,
     Owners            |-> MakeMap,
     Components        |-> MakeMap,
     DefaultComponents |-> << >>]

\* a Snapshot that starts versioned like the other manifests
NewSnapshotVersioned(t) ==
    [Ty          |-> ManifestTypeSnapshot,
     SpecVersion |-> CurrentSpecVersion,
     Expires     |-> FormatRFC3339(t + TypeOf(ManifestTypeSnapshot).expire),
     Version     |-> 1,
     Meta        |-> NilMap]

NewSnapshot(t) ==
    [Ty          |-> ManifestTypeSnapshot,
     SpecVersion |-> CurrentSpecVersion,
     Expires     |-> FormatRFC3339(t + TypeOf(ManifestTypeSnapshot).expire),
     Version     |-> 0,
     Meta        |-> NilMap]

\* a Timestamp that expires after the Root kind's duration
NewTimestampRootExpire(t) ==
    [Ty          |-> ManifestTypeTimestamp,
     SpecVersion |-> CurrentSpecVersion,
     Expires     |-> FormatRFC3339(t + TypeOf(ManifestTypeRoot).expire),
     Version     |-> 1,
     Meta        |-> NilMap]

NewTimestamp(t) ==
    [Ty          |-> ManifestTypeTimestamp,
     SpecVersion |-> CurrentSpecVersion,
     Expires     |-> FormatRFC3339(t + TypeOf(ManifestTypeTimestamp).expire),
     Version     |-> 1,
     Meta        |-> NilMap]

(***************************************************************************)
(* json.Marshal of a Snapshot: the length of the encoding.                 *)
(* {"_type":..,"spec_version":..,"expires":..,"version":N,"meta":{..}}     *)
(***************************************************************************)
RFC3339Len == 20

RECURSIVE Digits(_)
Digits(n) == IF n < 10 THEN 1 ELSE 1 + Digits(n \div 10)

JSONStringLen(str) == Len(str) + 2
JSONFieldLen(name, valueLen) == JSONStringLen(name) + 1 + valueLen

\* {"version":N}
FileVersionLen(fv) == 2 + JSONFieldLen("version", Digits(fv.Version))

RECURSIVE MetaEntriesLen(_, _)
MetaEntriesLen(kv, keys) ==
    IF keys = {} THEN 0
    ELSE LET k == CHOOSE x \in keys : TRUE
         IN  JSONFieldLen(k, FileVersionLen(kv[k])) + MetaEntriesLen(kv, keys \ {k})

\* a nil map encodes as null, otherwise an object with its entries comma-separated
MetaLen(meta) ==
    IF meta.isNil THEN 4
    ELSE 2 + MetaEntriesLen(meta.kv, DOMAIN meta.kv)
           + (IF Cardinality(DOMAIN meta.kv) > 0 THEN Cardinality(DOMAIN meta.kv) - 1 ELSE 0)

MarshalLen(s) ==
    2 + JSONFieldLen("_type", JSONStringLen(s.Ty))
      + 1 + JSONFieldLen("spec_version", JSONStringLen(s.SpecVersion))
      + 1 + JSONFieldLen("expires", RFC3339Len + 2)
      + 1 + JSONFieldLen("version", Digits(s.Version))
      + 1 + JSONFieldLen("meta", MetaLen(s.Meta))

(***************************************************************************)
(* Errors.                                                                 *)
(***************************************************************************)
NoError == [kind |-> "none", ty |-> ""]
MarshalError == [kind |-> "marshal", ty |-> ""]
PersistError == [kind |-> "persist", ty |-> ""]
\* the error without the kind it is about
NotInitializedErrorUnnamed(ty) == [kind |-> "not initialized", ty |-> ""]

\* fmt.Errorf("manifest '%s' not initialized porperly", ty)
NotInitializedError(ty) == [kind |-> "not initialized", ty |-> ty]

(***************************************************************************)
(* The operations on manifests.                                            *)
(***************************************************************************)
\* the body of SetVersions' loop, over the manifests whose keys are `keys`
RECURSIVE SetVersionsLoop(_, _, _)
SetVersionsLoop(meta, manifestList, keys) ==
    IF keys = {} THEN meta
    ELSE LET k == CHOOSE x \in keys : TRUE
             m == manifestList[k]
         IN  SetVersionsLoop(MapPut(meta, Filename(m), [Version |-> m.Version]),
                             manifestList, keys \ {k})

\* SetVersions rebuilding the ledger from an empty map
SetVersionsReplace(manifest, manifestList) ==
    [manifest EXCEPT !.Meta = SetVersionsLoop(MakeMap, manifestList, DOMAIN manifestList)]

SetVersions(manifest, manifestList) ==
    LET meta == IF manifest.Meta.isNil THEN MakeMap ELSE manifest.Meta
    IN  [manifest EXCEPT !.Meta = SetVersionsLoop(meta, manifestList, DOMAIN manifestList)]

\* SetSnapshot that makes the map before it serializes the Snapshot
SetSnapshotMakeFirst(manifest, s, marshalOK) ==
    LET meta == IF manifest.Meta.isNil THEN MakeMap ELSE manifest.Meta
        entry == [Hashes |-> [a \in {"sha256"} |-> "TODO"], Length |-> MarshalLen(s)]
    IN  IF ~marshalOK THEN [manifest |-> [manifest EXCEPT !.Meta = meta], err |-> MarshalError]
        ELSE [manifest |-> [manifest EXCEPT !.Meta = MapPut(meta, Filename(s), entry)],
              err |-> NoError]

\* SetSnapshot that leaves an entry it finds in place
SetSnapshotKeepOld(manifest, s, marshalOK) ==
    IF ~marshalOK THEN [manifest |-> manifest, err |-> MarshalError]
    ELSE LET meta == IF manifest.Meta.isNil THEN MakeMap ELSE manifest.Meta
             entry == [Hashes |-> [a \in {"sha256"} |-> "TODO"], Length |-> MarshalLen(s)]
         IN  [manifest |-> [manifest EXCEPT !.Meta =
                               IF Filename(s) \in Keys(meta) THEN meta
                               ELSE MapPut(meta, Filename(s), entry)],
              err |-> NoError]

\* marshalOK: whether json.Marshal(s) succeeded
SetSnapshot(manifest, s, marshalOK) ==
    IF ~marshalOK THEN [manifest |-> manifest, err |-> MarshalError]
    ELSE LET meta == IF manifest.Meta.isNil THEN MakeMap ELSE manifest.Meta
             entry == [Hashes |-> [a \in {"sha256"} |-> "TODO"], Length |-> MarshalLen(s)]
         IN  [manifest |-> [manifest EXCEPT !.Meta = MapPut(meta, Filename(s), entry)],
              err |-> NoError]

\* SetRole copying the Root kind's threshold whatever the target
SetRoleRootThreshold(manifest, m) ==
    LET roles == IF manifest.Roles.isNil THEN MakeMap ELSE manifest.Roles
        role == [URL       |-> "/" \o Filename(m),
                 Threshold |-> TypeOf(ManifestTypeRoot).threshold,
                 Keys      |-> MakeMap]
    IN  [manifest EXCEPT !.Roles = MapPut(roles, m.Ty, role)]

\* SetRole appending a further entry when the kind already has one
SetRoleAppend(manifest, m) ==
    LET roles == IF manifest.Roles.isNil THEN MakeMap ELSE manifest.Roles
        role == [URL       |-> "/" \o Filename(m),
                 Threshold |-> TypeOf(m.Ty).threshold,
                 Keys      |-> MakeMap]
        key == IF m.Ty \in Keys(roles) THEN m.Ty \o "#2" ELSE m.Ty
    IN  [manifest EXCEPT !.Roles = MapPut(roles, key, role)]

SetRole(manifest, m) ==
    LET roles == IF manifest.Roles.isNil THEN MakeMap ELSE manifest.Roles
        role == [URL       |-> "/" \o Filename(m),
                 Threshold |-> TypeOf(m.Ty).threshold,
                 Keys      |-> MakeMap]
    IN  [manifest EXCEPT !.Roles = MapPut(roles, m.Ty, role)]

\* SignAndWrite that wraps the role in an envelope without signatures
SignAndWriteUnsigned(role, marshalOK) ==
    IF ~marshalOK THEN [out |-> << >>, err |-> MarshalError]
    ELSE [out |-> <<[Signatures |-> << >>, Signed |-> role]>>, err |-> NoError]

\* SignAndWrite(out, role): what it writes to out (nothing, or one envelope)
\* and what it returns; marshalOK is whether json.Marshal(role) succeeds
SignAndWrite(role, marshalOK) ==
    IF ~marshalOK THEN [out |-> << >>, err |-> MarshalError]
    ELSE [out |-> <<[Signatures |-> <<[KeyID |-> "TODO", Sig |-> "TODO"]>>, Signed |-> role]>>,
          err |-> NoError]

\* batchSaveManifests(dst, manifests): one file per manifest, under its filename
BatchSaveFiles(ms) ==
    [f \in {Filename(ms[k]) : k \in DOMAIN ms} |->
        SignAndWrite(ms[CHOOSE k \in DOMAIN ms : Filename(ms[k]) = f], TRUE).out[1]]

\* manifests[k] = m
Assign(ms, k, m) == [x \in DOMAIN ms \cup {k} |-> IF x = k THEN m ELSE ms[x]]

(***************************************************************************)
(* Init(dst, initTime), statement by statement.                            *)
(***************************************************************************)
NoOp == [op |-> "none", before |-> "none", arg |-> {}]

\* no attempt made yet
NoAttempt == [count |-> 0, err |-> "none", reply |-> "none"]

\* the variables of the other specifications, at rest
ConcIdle ==
    /\ writers = << >>
    /\ dst = << >>

CdcIdle ==
    /\ cdcPc = "idle"
    /\ apiTimeout = 0
    /\ tables = 0
    /\ elapsed = 0
    /\ attempts = 0
    /\ lastAttempt = NoAttempt
    /\ retryErr = "none"
    /\ cdcRet = "none"
    /\ captures = << >>
    /\ owner = 0

Init ==
    /\ types \in Registries
    /\ initTime \in 0..MaxTime
    /\ manifests = EmptyFn
    /\ pc = "root"
    /\ visited = {}
    /\ err = NoError
    /\ saved = EmptyFn
    /\ saveCalls = 0
    /\ lastOp = NoOp
    /\ hashed = {}
    /\ ConcIdle
    /\ CdcIdle

InitRoot ==
    /\ pc = "root"
    /\ manifests' = Assign(manifests, ManifestTypeRoot, NewRoot(initTime))
    /\ pc' = "index"
    /\ UNCHANGED <<types, initTime, visited, err, saved, saveCalls, lastOp, hashed>>
    /\ UNCHANGED <<concVars, cdcVars>>

InitIndex ==
    /\ pc = "index"
    /\ manifests' = Assign(manifests, ManifestTypeIndex, NewIndex(initTime))
    /\ pc' = "snapshot"
    /\ UNCHANGED <<types, initTime, visited, err, saved, saveCalls, lastOp, hashed>>
    /\ UNCHANGED <<concVars, cdcVars>>

\* the Snapshot stored in the map before SetVersions iterates it
InitSnapshotSelfInclusive ==
    /\ pc = "snapshot"
    /\ LET withSelf == Assign(manifests, ManifestTypeSnapshot, NewSnapshot(initTime))
       IN  manifests' = Assign(manifests, ManifestTypeSnapshot,
                               SetVersions(NewSnapshot(initTime), withSelf))
    /\ pc' = "timestamp"
    /\ UNCHANGED <<types, initTime, visited, err, saved, saveCalls, lastOp, hashed>>
    /\ UNCHANGED <<concVars, cdcVars>>

\* manifests[snapshot] = NewSnapshot(initTime).SetVersions(manifests): the call
\* is evaluated before the assignment stores its result in the map
InitSnapshot ==
    /\ pc = "snapshot"
    /\ manifests' = Assign(manifests, ManifestTypeSnapshot,
                           SetVersions(NewSnapshot(initTime), manifests))
    /\ pc' = "timestamp"
    /\ UNCHANGED <<types, initTime, visited, err, saved, saveCalls, lastOp, hashed>>
    /\ UNCHANGED <<concVars, cdcVars>>

InitTimestamp ==
    /\ pc = "timestamp"
    /\ \E marshalOK \in BOOLEAN :
         LET r == SetSnapshot(NewTimestamp(initTime), manifests[ManifestTypeSnapshot], marshalOK)
         IN  IF r.err # NoError
             THEN /\ err' = r.err
                  /\ pc' = "failed"
                  /\ UNCHANGED <<manifests, hashed>>
             ELSE /\ manifests' = Assign(manifests, ManifestTypeTimestamp, r.manifest)
                  /\ hashed' = {manifests[ManifestTypeSnapshot]}
                  /\ pc' = "roles"
                  /\ UNCHANGED err
    /\ UNCHANGED <<types, initTime, visited, saved, saveCalls, lastOp>>
    /\ UNCHANGED <<concVars, cdcVars>>

\* an empty filename treated as a manifest that is missing
RangeSkipAsMissing ==
    /\ pc = "roles"
    /\ \E ty \in DOMAIN types \ visited :
         /\ types[ty].filename = ""
         /\ err' = NotInitializedError(ty)
         /\ visited' = visited \cup {ty}
         /\ pc' = "failed"
    /\ UNCHANGED <<types, initTime, manifests, saved, saveCalls, lastOp, hashed>>
    /\ UNCHANGED <<concVars, cdcVars>>

\* the missing manifest only noted, the loop going on
RangeMissingWarnOnly ==
    /\ pc = "roles"
    /\ \E ty \in DOMAIN types \ visited :
         /\ types[ty].filename # ""
         /\ ty \notin DOMAIN manifests
         /\ err' = NotInitializedError(ty)
         /\ visited' = visited \cup {ty}
    /\ UNCHANGED <<types, initTime, manifests, pc, saved, saveCalls, lastOp, hashed>>
    /\ UNCHANGED <<concVars, cdcVars>>

\* one iteration of `for ty, val := range types`, in any order
RangeSkip ==
    /\ pc = "roles"
    /\ \E ty \in DOMAIN types \ visited :
         /\ types[ty].filename = ""
         /\ visited' = visited \cup {ty}
    /\ UNCHANGED <<types, initTime, manifests, pc, err, saved, saveCalls, lastOp, hashed>>
    /\ UNCHANGED <<concVars, cdcVars>>

\* role population that bumps Root's version for every role it sets
RangeSetRoleBump ==
    /\ pc = "roles"
    /\ \E ty \in DOMAIN types \ visited :
         /\ types[ty].filename # ""
         /\ ty \in DOMAIN manifests
         /\ manifests' = [manifests EXCEPT ![ManifestTypeRoot] =
                             [SetRole(@, manifests[ty]) EXCEPT !.Version = @ + 1]]
         /\ visited' = visited \cup {ty}
    /\ UNCHANGED <<types, initTime, pc, err, saved, saveCalls, lastOp, hashed>>
    /\ UNCHANGED <<concVars, cdcVars>>

RangeSetRole ==
    /\ pc = "roles"
    /\ \E ty \in DOMAIN types \ visited :
         /\ types[ty].filename # ""
         /\ ty \in DOMAIN manifests
         /\ manifests' = [manifests EXCEPT ![ManifestTypeRoot] = SetRole(@, manifests[ty])]
         /\ visited' = visited \cup {ty}
    /\ UNCHANGED <<types, initTime, pc, err, saved, saveCalls, lastOp, hashed>>
    /\ UNCHANGED <<concVars, cdcVars>>

RangeMissing ==
    /\ pc = "roles"
    /\ \E ty \in DOMAIN types \ visited :
         /\ types[ty].filename # ""
         /\ ty \notin DOMAIN manifests
         /\ err' = NotInitializedError(ty)
         /\ visited' = visited \cup {ty}
         /\ pc' = "failed"
    /\ UNCHANGED <<types, initTime, manifests, saved, saveCalls, lastOp, hashed>>
    /\ UNCHANGED <<concVars, cdcVars>>

\* return batchSaveManifests(dst, manifests)
BatchSave ==
    /\ pc = "roles"
    /\ visited = DOMAIN types
    /\ saveCalls' = saveCalls + 1
    /\ \E writeOK \in BOOLEAN :
         IF writeOK
         THEN /\ saved' = BatchSaveFiles(manifests)
              /\ pc' = "done"
              /\ UNCHANGED err
         ELSE /\ err' = PersistError
              /\ pc' = "failed"
              /\ UNCHANGED saved
    /\ UNCHANGED <<types, initTime, manifests, visited, lastOp, hashed>>
    /\ UNCHANGED <<concVars, cdcVars>>

Next ==
    \/ InitRoot
    \/ InitIndex
    \/ InitSnapshot
    \/ InitTimestamp
    \/ RangeSkip
    \/ RangeSetRole
    \/ RangeMissing
    \/ BatchSave

Spec == Init /\ [][Next]_vars

(***************************************************************************)
(* Init as a function of the registry and initTime, the range loop visiting *)
(* the registry's kinds in one fixed order.                                  *)
(***************************************************************************)
\* statements 1-4 of Init when the Snapshot serializes
InitManifests(t) ==
    LET m1 == Assign(EmptyFn, ManifestTypeRoot, NewRoot(t))
        m2 == Assign(m1, ManifestTypeIndex, NewIndex(t))
        m3 == Assign(m2, ManifestTypeSnapshot, SetVersions(NewSnapshot(t), m2))
    IN  Assign(m3, ManifestTypeTimestamp,
               SetSnapshot(NewTimestamp(t), m3[ManifestTypeSnapshot], TRUE).manifest)

\* the range loop over the kinds `todo`, taken in the order CHOOSE gives
RECURSIVE RangeRoles(_, _)
RangeRoles(ms, todo) ==
    IF todo = {} THEN [manifests |-> ms, err |-> NoError]
    ELSE LET ty == CHOOSE x \in todo : TRUE
         IN  IF types[ty].filename = "" THEN RangeRoles(ms, todo \ {ty})
             ELSE IF ty \in DOMAIN ms
             THEN RangeRoles([ms EXCEPT ![ManifestTypeRoot] = SetRole(@, ms[ty])], todo \ {ty})
             ELSE [manifests |-> ms, err |-> NotInitializedError(ty)]

\* what Init reaches at the end of its loop in that order
InitInFixedOrder == RangeRoles(InitManifests(initTime), DOMAIN types)

(***************************************************************************)
(* A caller applying the operations to manifests it holds.                 *)
(***************************************************************************)
FreshManifest(k, t) ==
    CASE k = ManifestTypeRoot      -> NewRoot(t)
      [] k = ManifestTypeIndex     -> NewIndex(t)
      [] k = ManifestTypeSnapshot  -> NewSnapshot(t)
      [] k = ManifestTypeTimestamp -> NewTimestamp(t)

\* kinds whose version a publishing workflow bumps; Snapshot is not versioned
VersionedKinds == {ManifestTypeRoot, ManifestTypeIndex}

\* snapshot.SetVersions(the manifests of kinds ks)
OpSetVersions(ks) ==
    /\ pc = "ops"
    /\ manifests' = [manifests EXCEPT ![ManifestTypeSnapshot] =
                        SetVersions(@, [k \in ks |-> manifests[k]])]
    /\ lastOp' = [op |-> "SetVersions",
                  before |-> IF manifests[ManifestTypeSnapshot].Meta.isNil THEN "nil" ELSE "present",
                  arg |-> {}]
    /\ UNCHANGED <<types, initTime, pc, visited, err, saved, saveCalls, hashed>>
    /\ UNCHANGED <<concVars, cdcVars>>

\* timestamp.SetSnapshot(snapshot)
OpSetSnapshot ==
    /\ pc = "ops"
    /\ \E marshalOK \in BOOLEAN :
         LET r == SetSnapshot(manifests[ManifestTypeTimestamp],
                              manifests[ManifestTypeSnapshot], marshalOK)
         IN  /\ manifests' = [manifests EXCEPT ![ManifestTypeTimestamp] = r.manifest]
             /\ lastOp' = [op |-> IF r.err = NoError THEN "SetSnapshot" ELSE "SetSnapshotFailed",
                           before |-> IF manifests[ManifestTypeTimestamp].Meta.isNil
                                      THEN "nil" ELSE "present",
                           arg |-> {}]
             /\ hashed' = IF r.err = NoError THEN {manifests[ManifestTypeSnapshot]} ELSE hashed
    /\ UNCHANGED <<types, initTime, pc, visited, err, saved, saveCalls>>
    /\ UNCHANGED <<concVars, cdcVars>>

\* root.SetRole(the manifest of kind k)
OpSetRole(k) ==
    /\ pc = "ops"
    /\ manifests' = [manifests EXCEPT ![ManifestTypeRoot] = SetRole(@, manifests[k])]
    /\ lastOp' = [op |-> "SetRole",
                  before |-> IF manifests[ManifestTypeRoot].Roles.isNil THEN "nil"
                             ELSE IF k \in Keys(manifests[ManifestTypeRoot].Roles) THEN "present"
                             ELSE "absent",
                  arg |-> {k}]
    /\ UNCHANGED <<types, initTime, pc, visited, err, saved, saveCalls, hashed>>
    /\ UNCHANGED <<concVars, cdcVars>>

\* a later publication of manifest k: its version goes up by one
OpBumpVersion(k) ==
    /\ pc = "ops"
    /\ manifests[k].Version < MaxVersion
    /\ manifests' = [manifests EXCEPT ![k].Version = @ + 1]
    /\ lastOp' = [op |-> "BumpVersion", before |-> "none", arg |-> {k}]
    /\ UNCHANGED <<types, initTime, pc, visited, err, saved, saveCalls, hashed>>
    /\ UNCHANGED <<concVars, cdcVars>>

LedgerRegistry == Registry({ManifestTypeComponent}, 1, 1, 1, 1)

InitLedger ==
    /\ types = LedgerRegistry
    /\ initTime = 0
    /\ manifests = [k \in CoreKinds |-> FreshManifest(k, initTime)]
    /\ pc = "ops"
    /\ visited = {}
    /\ err = NoError
    /\ saved = EmptyFn
    /\ saveCalls = 0
    /\ lastOp = NoOp
    /\ hashed = {}
    /\ ConcIdle
    /\ CdcIdle

NextLedger ==
    \/ \E ks \in SUBSET CoreKinds : OpSetVersions(ks)
    \/ OpSetSnapshot
    \/ \E k \in VersionedKinds : OpBumpVersion(k)

SpecLedger == InitLedger /\ [][NextLedger]_vars

\* SignAndWrite(out, manifests[k]) with out the file of that manifest
OpSignAndWrite(k) ==
    /\ pc = "ops"
    /\ \E marshalOK \in BOOLEAN :
         LET r == SignAndWrite(manifests[k], marshalOK)
         IN  /\ saved' = IF r.out = << >> THEN saved
                         ELSE Assign(saved, Filename(manifests[k]), r.out[1])
             /\ lastOp' = [op |-> IF r.err = NoError THEN "SignAndWrite" ELSE "SignAndWriteFailed",
                           before |-> IF Filename(manifests[k]) \in DOMAIN saved
                                      THEN "present" ELSE "absent",
                           arg |-> {k}]
    /\ UNCHANGED <<types, initTime, manifests, pc, visited, err, saveCalls, hashed>>
    /\ UNCHANGED <<concVars, cdcVars>>

NextSign ==
    \/ \E k \in CoreKinds : OpSignAndWrite(k)
    \/ \E k \in VersionedKinds : OpBumpVersion(k)

SpecSign == InitLedger /\ [][NextSign]_vars

\* a Root as NewRoot built it, or one whose roles mapping is absent
InitRole ==
    /\ types \in {Registry({ManifestTypeComponent}, tRoot, tRest, 1, 1) :
                     tRoot \in 1..MaxThreshold, tRest \in 1..MaxThreshold}
    /\ initTime = 0
    /\ \E roles \in {NilMap, MakeMap} :
         manifests = [k \in CoreKinds |->
                        IF k = ManifestTypeRoot
                        THEN [NewRoot(initTime) EXCEPT !.Roles = roles]
                        ELSE FreshManifest(k, initTime)]
    /\ pc = "ops"
    /\ visited = {}
    /\ err = NoError
    /\ saved = EmptyFn
    /\ saveCalls = 0
    /\ lastOp = NoOp
    /\ hashed = {}
    /\ ConcIdle
    /\ CdcIdle

NextRole ==
    \/ \E k \in CoreKinds : OpSetRole(k)
    \/ \E k \in VersionedKinds : OpBumpVersion(k)

SpecRole == InitRole /\ [][NextRole]_vars

(***************************************************************************)
(* Two calls of Init on one destination.  Init takes dst as a path and     *)
(* acquires nothing; batchSaveManifests puts each file in place on its own. *)
(***************************************************************************)
Calls == {1, 2}

\* the repository variables of the single-call model, unused here
RepoIdle ==
    /\ types = LedgerRegistry
    /\ initTime = 0
    /\ manifests = EmptyFn
    /\ pc = "calls"
    /\ visited = {}
    /\ err = NoError
    /\ saved = EmptyFn
    /\ saveCalls = 0
    /\ lastOp = NoOp
    /\ hashed = {}

InitConcurrent ==
    /\ RepoIdle
    /\ CdcIdle
    /\ writers \in [Calls -> {[pc |-> "start", initTime |-> t, files |-> EmptyFn,
                               pending |-> {}, err |-> NoError] : t \in 0..MaxTime}]
    /\ dst = EmptyFn

\* statements 1-5 of call p, all on its own in-memory manifest set
CallInit(p) ==
    /\ writers[p].pc = "start"
    /\ \E marshalOK \in BOOLEAN :
         LET r == RangeRoles(InitManifests(writers[p].initTime), DOMAIN types)
         IN  writers' = [writers EXCEPT ![p] =
                 IF ~marshalOK THEN [@ EXCEPT !.pc = "failed", !.err = MarshalError]
                 ELSE IF r.err # NoError THEN [@ EXCEPT !.pc = "failed", !.err = r.err]
                 ELSE [@ EXCEPT !.pc = "saving",
                                !.files = BatchSaveFiles(r.manifests),
                                !.pending = DOMAIN BatchSaveFiles(r.manifests)]]
    /\ UNCHANGED <<repoVars, dst, cdcVars>>

\* batchSaveManifests of call p puts one more of its files in place
CallSaveFile(p, f) ==
    /\ writers[p].pc = "saving"
    /\ f \in writers[p].pending
    /\ dst' = Assign(dst, f, writers[p].files[f])
    /\ writers' = [writers EXCEPT ![p].pending = @ \ {f}]
    /\ UNCHANGED <<repoVars, cdcVars>>

\* batchSaveManifests of call p fails on a file
CallSaveFail(p) ==
    /\ writers[p].pc = "saving"
    /\ writers[p].pending # {}
    /\ writers' = [writers EXCEPT ![p].pc = "failed", ![p].err = PersistError]
    /\ UNCHANGED <<repoVars, dst, cdcVars>>

\* call p returns what batchSaveManifests returned
CallReturn(p) ==
    /\ writers[p].pc = "saving"
    /\ writers[p].pending = {}
    /\ writers' = [writers EXCEPT ![p].pc = "done"]
    /\ UNCHANGED <<repoVars, dst, cdcVars>>

NextConcurrent ==
    \/ \E p \in Calls : CallInit(p)
    \/ \E p \in Calls : \E f \in writers[p].pending : CallSaveFile(p, f)
    \/ \E p \in Calls : CallSaveFail(p)
    \/ \E p \in Calls : CallReturn(p)

SpecConcurrent == InitConcurrent /\ [][NextConcurrent]_vars

(***************************************************************************)
(* Properties of Init (specification Spec).                                *)
(***************************************************************************)
\* Init returned nil
Succeeded == pc = "done"
\* Init returned, with or without an error
Returned == pc \in {"done", "failed"}
\* kinds the registry gives a file of their own
FileKinds == {k \in DOMAIN types : types[k].filename # ""}
\* kinds the registry gives a file but the manifest set has no entity for
MissingKinds == {k \in FileKinds : k \notin DOMAIN manifests}
\* statements 1-4 of Init ran to their end
ConstructionDone == pc \in {"roles", "done"} \/ (pc = "failed" /\ err.kind # "marshal")

\* C1: after a successful Init, Root.roles has exactly one entry per registry
\* kind with a non-empty filename (Root included) and no other, each with
\* url = "/" + filename and threshold = the registry's threshold of that kind;
\* with a registry of the four core kinds it has 4 entries.
C1_RolesAfterInit ==
    Succeeded =>
        LET roles == manifests[ManifestTypeRoot].Roles
        IN  /\ ~roles.isNil
            /\ Keys(roles) = FileKinds
            /\ ManifestTypeRoot \in Keys(roles)
            /\ \A k \in Keys(roles) :
                 /\ roles.kv[k].URL = "/" \o types[k].filename
                 /\ roles.kv[k].Threshold = types[k].threshold
            /\ (DOMAIN types = CoreKinds => Cardinality(Keys(roles)) = 4)

C1_Witness ==
    /\ Succeeded
    /\ DOMAIN types = CoreKinds
    /\ Cardinality(Keys(manifests[ManifestTypeRoot].Roles)) = 4
    /\ types[ManifestTypeRoot].threshold # types[ManifestTypeIndex].threshold

\* C2 as claimed: after a successful Init, Snapshot.meta has one entry per
\* manifest of the bootstrap (Root, Index, Snapshot, Timestamp), keyed by its
\* filename, with that manifest's version.
C2_LedgerCoversAllFour ==
    Succeeded =>
        LET meta == manifests[ManifestTypeSnapshot].Meta
        IN  /\ Keys(meta) = {types[k].filename : k \in CoreKinds}
            /\ \A k \in CoreKinds :
                 meta.kv[types[k].filename].Version = manifests[k].Version

\* C2 as amended: after a successful Init, Snapshot.meta has exactly the
\* entries of the manifests that were in the set when SetVersions ran, Root
\* and Index, each with that manifest's version; it has no entry for the
\* Snapshot itself nor for Timestamp.
C2_LedgerCoversRootAndIndex ==
    Succeeded =>
        LET meta == manifests[ManifestTypeSnapshot].Meta
        IN  /\ ~meta.isNil
            /\ Keys(meta) = {types[ManifestTypeRoot].filename, types[ManifestTypeIndex].filename}
            /\ \A k \in {ManifestTypeRoot, ManifestTypeIndex} :
                 meta.kv[types[k].filename].Version = manifests[k].Version
            /\ types[ManifestTypeSnapshot].filename \notin Keys(meta)
            /\ types[ManifestTypeTimestamp].filename \notin Keys(meta)

C2_Witness ==
    /\ Succeeded
    /\ "snapshot.json" \in DOMAIN saved
    /\ Cardinality(Keys(saved["snapshot.json"].Signed.Meta)) = 2

\* C3: when Init fails before persistence (SetSnapshot fails, or a kind with a
\* filename has no manifest) batchSaveManifests is never invoked, nothing is
\* persisted and the error is returned; persistence happens at most once, and
\* only after statements 1-5 all succeeded.
C3_NoPersistenceOnFailure ==
    /\ saveCalls <= 1
    /\ err.kind \in {"marshal", "not initialized"} =>
         /\ pc = "failed"
         /\ saveCalls = 0
         /\ saved = EmptyFn
    /\ pc = "failed" => err # NoError
    /\ saveCalls = 1 =>
         /\ Returned
         /\ visited = DOMAIN types
         /\ CoreKinds \subseteq DOMAIN manifests
         /\ MissingKinds = {}
         /\ err.kind \in {"none", "persist"}
    /\ saved # EmptyFn => Succeeded /\ saveCalls = 1

C3_Witness ==
    /\ pc = "failed"
    /\ err.kind = "marshal"
    /\ saveCalls = 0
    /\ saved = EmptyFn

C5_PlaceholderSkipped ==
    \A k \in DOMAIN types \ FileKinds :
        /\ err.ty # k
        /\ ManifestTypeRoot \in DOMAIN manifests => k \notin Keys(manifests[ManifestTypeRoot].Roles)
        /\ (Returned /\ MissingKinds = {}) => (Succeeded \/ err.kind = "persist")
        /\ (pc = "roles" /\ visited = DOMAIN types) => err = NoError

C5_Witness ==
    /\ Succeeded
    /\ ManifestTypeComponent \in visited
    /\ ManifestTypeComponent \notin DOMAIN manifests
    /\ ManifestTypeComponent \notin Keys(manifests[ManifestTypeRoot].Roles)

\* C6: after a successful Init, Root.version = Index.version =
\* Timestamp.version = 1 and Snapshot.version = 0, and no statement of Init
\* changes the version of a manifest it has created.
C6_Versions ==
    /\ [](Succeeded =>
            /\ manifests[ManifestTypeRoot].Version = 1
            /\ manifests[ManifestTypeIndex].Version = 1
            /\ manifests[ManifestTypeTimestamp].Version = 1
            /\ manifests[ManifestTypeSnapshot].Version = 0)
    /\ [][\A k \in DOMAIN manifests :
            /\ k \in DOMAIN manifests'
            /\ manifests'[k].Version = manifests[k].Version]_vars

C6_Witness ==
    /\ Succeeded
    /\ saved["snapshot.json"].Signed.Version = 0
    /\ saved["root.json"].Signed.Version = 1
    /\ Keys(saved["root.json"].Signed.Roles) # {}

(***************************************************************************)
(* Properties of SetSnapshot and SetVersions (specification SpecLedger).   *)
(***************************************************************************)
SnapshotFile == types[ManifestTypeSnapshot].filename
\* the hash Timestamp.meta records for the Snapshot's file
RecordedHash == manifests[ManifestTypeTimestamp].Meta.kv[SnapshotFile].Hashes["sha256"]
FilesOf(ks) == {types[k].filename : k \in ks}

\* C7: after a successful SetSnapshot, Timestamp.meta has exactly one entry,
\* keyed by the Snapshot's filename, whose length is the byte length of the
\* Snapshot's serialization when SetSnapshot ran; a repeated SetSnapshot
\* replaces that entry instead of adding a second one.
C7_TimestampMeta ==
    LET meta == manifests[ManifestTypeTimestamp].Meta
    IN  /\ (hashed = {}) <=> meta.isNil
        /\ hashed # {} =>
             /\ Keys(meta) = {SnapshotFile}
             /\ \A s \in hashed : meta.kv[SnapshotFile].Length = MarshalLen(s)
        /\ lastOp.op = "SetSnapshot" => hashed = {manifests[ManifestTypeSnapshot]}

C7_Witness ==
    /\ lastOp.op = "SetSnapshot"
    /\ lastOp.before = "present"
    /\ Cardinality(Keys(manifests[ManifestTypeTimestamp].Meta)) = 1
    /\ Cardinality(Keys(manifests[ManifestTypeSnapshot].Meta)) >= 2
    /\ manifests[ManifestTypeTimestamp].Meta.kv[SnapshotFile].Length
         # MarshalLen(NewSnapshot(initTime))

\* C8 as claimed: SetVersions(M) replaces Snapshot.meta entirely: whatever
\* meta held before, after the call it is exactly {filename(m) -> version(m)}
\* for m in M.
C8_ReplacesEntirely ==
    [][\A ks \in SUBSET CoreKinds :
          OpSetVersions(ks) =>
            LET new == manifests'[ManifestTypeSnapshot].Meta
            IN  /\ Keys(new) = FilesOf(ks)
                /\ \A k \in ks : new.kv[types[k].filename].Version = manifests[k].Version]_vars

\* C8 as amended: SetVersions(M) merges into Snapshot.meta: after the call
\* meta is not nil, every m in M is recorded under filename(m) with its
\* current version (a bumped Index with the new one), and every prior entry
\* for a file not in M survives unchanged; meta is exactly the mapping of M
\* only when it was nil or empty before.
C8_MergesIntoMeta ==
    [][\A ks \in SUBSET CoreKinds :
          OpSetVersions(ks) =>
            LET old == manifests[ManifestTypeSnapshot].Meta
                new == manifests'[ManifestTypeSnapshot].Meta
            IN  /\ ~new.isNil
                /\ Keys(new) = Keys(old) \cup FilesOf(ks)
                /\ \A k \in ks : new.kv[types[k].filename].Version = manifests[k].Version
                /\ \A f \in Keys(old) \ FilesOf(ks) : new.kv[f] = old.kv[f]
                /\ Keys(old) = {} => Keys(new) = FilesOf(ks)]_vars

C8_Witness ==
    LET meta == manifests[ManifestTypeSnapshot].Meta
    IN  /\ lastOp.op = "SetVersions"
        /\ lastOp.before = "present"
        /\ {"index.json", "root.json", "timestamp.json"} \subseteq Keys(meta)
        /\ meta.kv["index.json"].Version = 2
        /\ manifests[ManifestTypeRoot].Version = 2
        /\ meta.kv["root.json"].Version = 1

\* C9: the hash SetSnapshot records is content-sensitive: when SetSnapshot
\* runs again on a Snapshot whose content differs from the one hashed before
\* (Index bumped from 1 to 2 and the ledger rebuilt), the recorded hash differs
\* from the one recorded before.
C9_HashContentSensitive ==
    [][(hashed # {} /\ hashed' # {} /\ hashed' # hashed) => RecordedHash' # RecordedHash]_vars

(***************************************************************************)
(* Properties of SetRole (specification SpecRole).                         *)
(***************************************************************************)
\* C10: SetRole is idempotent with overwrite semantics: a second SetRole with
\* a manifest of the same kind leaves exactly the one Role entry of the first
\* call, the entries of the other kinds are unchanged, and a nil roles mapping
\* is initialised.
C10_SetRoleIdempotent ==
    [][\A k \in CoreKinds :
          OpSetRole(k) =>
            LET old == manifests[ManifestTypeRoot].Roles
                new == manifests'[ManifestTypeRoot].Roles
            IN  /\ ~new.isNil
                /\ Keys(new) = Keys(old) \cup {k}
                /\ new.kv[k] = [URL       |-> "/" \o types[k].filename,
                                Threshold |-> types[k].threshold,
                                Keys      |-> MakeMap]
                /\ \A j \in Keys(old) \ {k} : new.kv[j] = old.kv[j]
                /\ k \in Keys(old) => new = old
                /\ \A v \in 0..MaxVersion :
                     SetRole(manifests'[ManifestTypeRoot], [manifests[k] EXCEPT !.Version = v])
                       = manifests'[ManifestTypeRoot]]_vars

C10_Witness ==
    /\ lastOp.op = "SetRole"
    /\ lastOp.before = "present"
    /\ lastOp.arg = {ManifestTypeIndex}
    /\ manifests[ManifestTypeIndex].Version = 2
    /\ Cardinality(Keys(manifests[ManifestTypeRoot].Roles)) >= 2

(***************************************************************************)
(* CDCOpenAPIClient.DrainCapture(target, apiTimeoutSeconds).               *)
(***************************************************************************)
MaxTimeout == 4
MaxTables == 2
MaxLatency == 1
NumEndpoints == 2
\* RetryOption.Delay, in seconds
DelaySeconds == 2

\* what client.Put gives the callback: err, the status code and the body; a
\* body that parses carries the count of tables still on the target capture
PutReplies(n) ==
    {[failed |-> FALSE, status |-> 200, data |-> "count", count |-> c] : c \in 0..n}
    \cup {[failed |-> FALSE, status |-> 200, data |-> "not json", count |-> 0],
          [failed |-> TRUE, status |-> 404, data |-> "not found", count |-> 0],
          [failed |-> TRUE, status |-> 503, data |-> "scheduler request failed", count |-> 0],
          [failed |-> TRUE, status |-> 400, data |-> "capture not exists", count |-> 0],
          [failed |-> TRUE, status |-> 500, data |-> "internal error", count |-> 0]}

\* the callback taking "scheduler request failed" for an error like any other
DrainCallbackStrict(reply, resp) ==
    IF reply.failed
    THEN IF reply.status = 404 THEN [err |-> "none", resp |-> resp, reply |-> reply.data]
         ELSE IF reply.data = "capture not exists"
         THEN [err |-> "none", resp |-> resp, reply |-> reply.data]
         ELSE [err |-> "request failed", resp |-> resp, reply |-> reply.data]
    ELSE IF reply.data = "count" THEN [err |-> "none", resp |-> reply.count, reply |-> reply.data]
         ELSE [err |-> "unmarshal", resp |-> resp, reply |-> reply.data]

\* the callback drainCapture gives tryURLs: the error it returns and resp's
\* CurrentTableCount after it
DrainCallback(reply, resp) ==
    IF reply.failed
    THEN IF reply.status = 404 THEN [err |-> "none", resp |-> resp, reply |-> reply.data]
         ELSE IF reply.data = "scheduler request failed"
         THEN [err |-> "none", resp |-> resp, reply |-> reply.data]
         ELSE IF reply.data = "capture not exists"
         THEN [err |-> "none", resp |-> resp, reply |-> reply.data]
         ELSE [err |-> "request failed", resp |-> resp, reply |-> reply.data]
    ELSE IF reply.data = "count" THEN [err |-> "none", resp |-> reply.count, reply |-> reply.data]
         ELSE [err |-> "unmarshal", resp |-> resp, reply |-> reply.data]

\* tryURLs(endpoints, f) from endpoint i on: the first endpoint f succeeds on
\* ends it, otherwise it returns the last error
RECURSIVE TryURLsDrain(_, _, _)
TryURLsDrain(replies, i, resp) ==
    LET r == DrainCallback(replies[i], resp)
    IN  IF r.err = "none" \/ i = Len(replies) THEN r
        ELSE TryURLsDrain(replies, i + 1, r.resp)

\* drainCapture(client, target): resp.CurrentTableCount and err
drainCapture(replies) ==
    LET r == TryURLsDrain(replies, 1, 0)
    IN  [count |-> r.resp, err |-> r.err, reply |-> r.reply]

\* the function DrainCapture gives utils.Retry: nil ends the retrying
DrainAttemptErr(a) ==
    IF a.err # "none" THEN a.err
    ELSE IF a.count = 0 THEN "none"
    ELSE "still waiting for the drain capture to finish"

\* RetryOption.Attempts as utils.Retry sets it when it is not given
RetryAttempts(timeout) == (timeout \div DelaySeconds) + 1

\* DrainCapture that returns what utils.Retry returned
DrainCaptureReturnErr(e) == IF e = "none" THEN "nil" ELSE e

\* what DrainCapture returns once utils.Retry returned e
DrainCaptureReturn(e) == "nil"

InitDrain ==
    /\ RepoIdle
    /\ ConcIdle
    /\ cdcPc = "call"
    /\ apiTimeout \in 0..MaxTimeout
    /\ tables \in 0..MaxTables
    /\ elapsed = 0
    /\ attempts = 0
    /\ lastAttempt = NoAttempt
    /\ retryErr = "none"
    /\ cdcRet = "none"
    /\ captures = << >>
    /\ owner = 0

\* utils.Retry is entered: it refuses a timeout that is not positive
RetryStart ==
    /\ cdcPc = "call"
    /\ IF apiTimeout <= 0
       THEN cdcPc' = "retried" /\ retryErr' = "timeout must be greater than 0"
       ELSE cdcPc' = "attempt" /\ UNCHANGED retryErr
    /\ UNCHANGED <<apiTimeout, tables, elapsed, attempts, lastAttempt, cdcRet, captures, owner>>
    /\ UNCHANGED <<repoVars, concVars>>

\* one attempt: drainCapture asks the endpoints, which report the tables the
\* target capture still holds; nil from the function ends utils.Retry
DrainAttempt ==
    /\ cdcPc = "attempt"
    /\ \E left \in 0..tables, d \in 0..MaxLatency :
       \E replies \in [1..NumEndpoints -> PutReplies(left)] :
         LET a == drainCapture(replies)
         IN  /\ \A i \in 1..NumEndpoints :
                    replies[i].data = "count" => replies[i].count = left
             /\ tables' = left
             /\ elapsed' = elapsed + d
             /\ attempts' = attempts + 1
             /\ lastAttempt' = a
             /\ cdcPc' = IF DrainAttemptErr(a) = "none" THEN "retried" ELSE "wait"
    /\ UNCHANGED <<apiTimeout, retryErr, cdcRet, captures, owner>>
    /\ UNCHANGED <<repoVars, concVars>>

\* after a failed attempt the timeout has passed
RetryTimeout ==
    /\ cdcPc = "wait"
    /\ elapsed >= apiTimeout
    /\ retryErr' = "operation timed out"
    /\ cdcPc' = "retried"
    /\ UNCHANGED <<apiTimeout, tables, elapsed, attempts, lastAttempt, cdcRet, captures, owner>>
    /\ UNCHANGED <<repoVars, concVars>>

\* after a failed attempt there is time left: sleep Delay, then go round the
\* loop again unless the attempts are used up
RetrySleep ==
    /\ cdcPc = "wait"
    /\ elapsed < apiTimeout
    /\ elapsed' = elapsed + DelaySeconds
    /\ IF attempts < RetryAttempts(apiTimeout)
       THEN cdcPc' = "attempt" /\ UNCHANGED retryErr
       ELSE cdcPc' = "retried" /\ retryErr' = "operation exceeds the max retry attempts"
    /\ UNCHANGED <<apiTimeout, tables, attempts, lastAttempt, cdcRet, captures, owner>>
    /\ UNCHANGED <<repoVars, concVars>>

\* DrainCapture logs what utils.Retry returned and returns
DrainReturn ==
    /\ cdcPc = "retried"
    /\ cdcRet' = DrainCaptureReturn(retryErr)
    /\ cdcPc' = "returned"
    /\ UNCHANGED <<apiTimeout, tables, elapsed, attempts, lastAttempt, retryErr, captures, owner>>
    /\ UNCHANGED <<repoVars, concVars>>

NextDrain ==
    \/ RetryStart
    \/ DrainAttempt
    \/ RetryTimeout
    \/ RetrySleep
    \/ DrainReturn

SpecDrain == InitDrain /\ [][NextDrain]_vars

(***************************************************************************)
(* CDCOpenAPIClient.ResignOwner().                                         *)
(***************************************************************************)
MaxCaptures == 3

\* what client.PostWithStatusCode / GetWithStatusCode give a callback
StatusReplies ==
    {[failed |-> FALSE, status |-> 200],
     [failed |-> TRUE, status |-> 404],
     [failed |-> TRUE, status |-> 500]}

\* the callback ResignOwner gives tryURLs
ResignCallback(reply) ==
    IF reply.failed
    THEN IF reply.status = 404 THEN [err |-> "none", reply |-> "not found"]
         ELSE [err |-> "request failed", reply |-> "failed"]
    ELSE [err |-> "none", reply |-> "resigned"]

\* tryURLs(endpoints, f) from endpoint i on, for the resign request
RECURSIVE TryURLsResign(_, _)
TryURLsResign(replies, i) ==
    LET r == ResignCallback(replies[i])
    IN  IF r.err = "none" \/ i = Len(replies) THEN r ELSE TryURLsResign(replies, i + 1)

\* getAllCaptures: the list the server gives, an empty one on a 404, or an error
getAllCaptures(reply, cs) ==
    IF reply.failed
    THEN IF reply.status = 404 THEN [result |-> << >>, err |-> "none"]
         ELSE [result |-> << >>, err |-> "request failed"]
    ELSE [result |-> cs, err |-> "none"]

\* GetOwner(): the first capture listed with IsOwner, or nil and an error
GetOwner(listed) ==
    IF listed.err # "none" THEN [owner |-> 0, err |-> listed.err]
    ELSE IF \E i \in 1..Len(listed.result) : listed.result[i].IsOwner
    THEN [owner |-> CHOOSE i \in 1..Len(listed.result) :
                        /\ listed.result[i].IsOwner
                        /\ \A j \in 1..(i - 1) : ~listed.result[j].IsOwner,
          err |-> "none"]
    ELSE [owner |-> 0, err |-> "owner not found"]

InitResign ==
    /\ RepoIdle
    /\ ConcIdle
    /\ cdcPc = "call"
    /\ apiTimeout = 0
    /\ tables = 0
    /\ elapsed = 0
    /\ attempts = 0
    /\ lastAttempt = NoAttempt
    /\ retryErr = "none"
    /\ cdcRet = "none"
    /\ \E n \in 0..MaxCaptures :
         captures \in {cs \in [1..n -> [IsOwner : BOOLEAN]] :
                          Cardinality({i \in 1..n : cs[i].IsOwner}) <= 1}
    /\ owner = 0

\* the resign request: an error of tryURLs is returned at once; a capture
\* that resigned is owner no longer
ResignRequest ==
    /\ cdcPc = "call"
    /\ \E replies \in [1..NumEndpoints -> StatusReplies] :
         LET r == TryURLsResign(replies, 1)
         IN  /\ lastAttempt' = [count |-> 0, err |-> r.err, reply |-> r.reply]
             /\ IF r.err # "none"
                THEN cdcPc' = "returned" /\ cdcRet' = r.err /\ UNCHANGED captures
                ELSE /\ cdcPc' = "getOwner"
                     /\ UNCHANGED cdcRet
                     /\ captures' = IF r.reply = "resigned"
                                    THEN [i \in DOMAIN captures |-> [IsOwner |-> FALSE]]
                                    ELSE captures
    /\ UNCHANGED <<apiTimeout, tables, elapsed, attempts, retryErr, owner>>
    /\ UNCHANGED <<repoVars, concVars>>

\* the cluster elects a new owner among its captures
ElectOwner ==
    /\ cdcPc = "getOwner"
    /\ \A i \in DOMAIN captures : ~captures[i].IsOwner
    /\ \E i \in DOMAIN captures : captures' = [captures EXCEPT ![i].IsOwner = TRUE]
    /\ UNCHANGED <<cdcPc, apiTimeout, tables, elapsed, attempts, lastAttempt, retryErr, cdcRet, owner>>
    /\ UNCHANGED <<repoVars, concVars>>

\* owner, err := c.GetOwner(); an error is logged only
GetOwnerCall ==
    /\ cdcPc = "getOwner"
    /\ \E reply \in StatusReplies :
         LET r == GetOwner(getAllCaptures(reply, captures))
         IN  /\ owner' = r.owner
             /\ retryErr' = r.err
    /\ cdcPc' = "checkOwner"
    /\ UNCHANGED <<apiTimeout, tables, elapsed, attempts, lastAttempt, cdcRet, captures>>
    /\ UNCHANGED <<repoVars, concVars>>

\* if owner.IsOwner {...}; return err -- reading a field of a nil *Capture is
\* a nil pointer dereference, which panics
OwnerCheck ==
    /\ cdcPc = "checkOwner"
    /\ IF owner = 0
       THEN cdcPc' = "panic" /\ UNCHANGED cdcRet
       ELSE cdcPc' = "returned" /\ cdcRet' = (IF retryErr = "none" THEN "nil" ELSE retryErr)
    /\ UNCHANGED <<apiTimeout, tables, elapsed, attempts, lastAttempt, retryErr, captures, owner>>
    /\ UNCHANGED <<repoVars, concVars>>

NextResign ==
    \/ ResignRequest
    \/ ElectOwner
    \/ GetOwnerCall
    \/ OwnerCheck

SpecResign == InitResign /\ [][NextResign]_vars

(***************************************************************************)
(* CDCInstance.PreRestart(ctx, topo, apiTimeoutSeconds, tlsCfg).  Here      *)
(* captures is tidbTopo.CDCServers, lastAttempt holds the locals count and *)
(* err, attempts counts the drain requests made and elapsed the iterations *)
(* of the wait loop.                                                        *)
(***************************************************************************)
MaxSpins == 2

InitPreRestart ==
    /\ RepoIdle
    /\ ConcIdle
    /\ cdcPc = "call"
    /\ apiTimeout \in 0..MaxTimeout
    /\ tables \in 0..MaxTables
    /\ elapsed = 0
    /\ attempts = 0
    /\ lastAttempt = NoAttempt
    /\ retryErr = "none"
    /\ cdcRet = "none"
    /\ \E n \in 0..MaxCaptures : captures = [i \in 1..n |-> [IsOwner |-> FALSE]]
    /\ owner = 0

\* the type assertion on topo and the check of the number of CDC servers
PreRestartEnter ==
    /\ cdcPc = "call"
    /\ \E ok \in BOOLEAN :
         IF ~ok THEN cdcPc' = "panic" /\ UNCHANGED cdcRet
         ELSE IF Len(captures) <= 1 THEN cdcPc' = "returned" /\ cdcRet' = "nil"
         ELSE cdcPc' = "drain" /\ UNCHANGED cdcRet
    /\ UNCHANGED <<apiTimeout, tables, elapsed, attempts, lastAttempt, retryErr, captures, owner>>
    /\ UNCHANGED <<repoVars, concVars>>

\* count, err := client.DrainCapture(captureID): an error, which is returned,
\* or the count of tables still on the capture
PreRestartDrain ==
    /\ cdcPc = "drain"
    /\ attempts' = attempts + 1
    /\ \/ /\ lastAttempt' = [count |-> 0, err |-> "request failed", reply |-> "failed"]
          /\ cdcPc' = "returned"
          /\ cdcRet' = "request failed"
          /\ UNCHANGED tables
       \/ \E c \in 0..tables :
          /\ lastAttempt' = [count |-> c, err |-> "none", reply |-> "count"]
          /\ tables' = c
          /\ cdcPc' = "loop"
          /\ UNCHANGED cdcRet
    /\ UNCHANGED <<apiTimeout, elapsed, retryErr, captures, owner>>
    /\ UNCHANGED <<repoVars, concVars>>

\* for count != 0 { }: one iteration of the empty body
PreRestartLoop ==
    /\ cdcPc = "loop"
    /\ lastAttempt.count # 0
    /\ elapsed < MaxSpins
    /\ elapsed' = elapsed + 1
    /\ UNCHANGED <<cdcPc, apiTimeout, tables, attempts, lastAttempt, retryErr, cdcRet, captures, owner>>
    /\ UNCHANGED <<repoVars, concVars>>

\* the loop is left with count = 0; return nil
PreRestartReturn ==
    /\ cdcPc = "loop"
    /\ lastAttempt.count = 0
    /\ cdcPc' = "returned"
    /\ cdcRet' = "nil"
    /\ UNCHANGED <<apiTimeout, tables, elapsed, attempts, lastAttempt, retryErr, captures, owner>>
    /\ UNCHANGED <<repoVars, concVars>>

NextPreRestart ==
    \/ PreRestartEnter
    \/ PreRestartDrain
    \/ PreRestartLoop
    \/ PreRestartReturn

SpecPreRestart == InitPreRestart /\ [][NextPreRestart]_vars

(***************************************************************************)
(* Further properties of the manifests.                                    *)
(***************************************************************************)
\* C11 (SpecLedger): when SetSnapshot fails because the Snapshot cannot be
\* serialized it returns the error and leaves Timestamp.meta exactly as it
\* was: no entry added, changed or removed, a nil meta still nil.
C11_FailedSetSnapshotLeavesMeta ==
    /\ [](LET r == SetSnapshot(manifests[ManifestTypeTimestamp],
                               manifests[ManifestTypeSnapshot], FALSE)
          IN  r.err = MarshalError /\ r.manifest = manifests[ManifestTypeTimestamp])
    /\ [][lastOp'.op = "SetSnapshotFailed" =>
            /\ manifests'[ManifestTypeTimestamp].Meta = manifests[ManifestTypeTimestamp].Meta
            /\ manifests' = manifests
            /\ hashed' = hashed]_vars

C11_Witness ==
    /\ lastOp.op = "SetSnapshotFailed"
    /\ lastOp.before = "nil"
    /\ manifests[ManifestTypeTimestamp].Meta.isNil
    /\ ~manifests[ManifestTypeSnapshot].Meta.isNil

\* C12 (SpecSign): SignAndWrite wraps the role in an envelope carrying at
\* least one signature entry and writes it; when the role cannot be serialized
\* it returns the error and writes nothing.
C12_SignAndWrite ==
    /\ [](\A f \in DOMAIN saved : Len(saved[f].Signatures) >= 1)
    /\ [](\A k \in CoreKinds :
            /\ SignAndWrite(manifests[k], FALSE) = [out |-> << >>, err |-> MarshalError]
            /\ LET r == SignAndWrite(manifests[k], TRUE)
               IN  /\ r.err = NoError
                   /\ Len(r.out) = 1
                   /\ r.out[1].Signed = manifests[k]
                   /\ Len(r.out[1].Signatures) >= 1)
    /\ [][(lastOp'.op = "SignAndWriteFailed") => (saved' = saved)]_vars
    /\ [][(lastOp'.op = "SignAndWrite") =>
            (\E k \in lastOp'.arg :
                /\ Filename(manifests[k]) \in DOMAIN saved'
                /\ saved'[Filename(manifests[k])].Signed = manifests[k])]_vars

C12_Witness ==
    /\ lastOp.op = "SignAndWriteFailed"
    /\ lastOp.before = "absent"
    /\ lastOp.arg = {ManifestTypeRoot}
    /\ "root.json" \notin DOMAIN saved
    /\ "index.json" \in DOMAIN saved
    /\ Len(saved["index.json"].Signatures) = 1

\* C13 (Spec): each of the four core manifests Init creates at initTime
\* expires at initTime + the expire duration the registry gives its own kind.
C13_Expires ==
    /\ \A k \in DOMAIN manifests :
         /\ manifests[k].Ty = k
         /\ manifests[k].Expires = FormatRFC3339(initTime + types[k].expire)
    /\ \A f \in DOMAIN saved :
         saved[f].Signed.Expires = FormatRFC3339(initTime + types[saved[f].Signed.Ty].expire)

C13_Witness ==
    /\ Succeeded
    /\ initTime > 0
    /\ types[ManifestTypeRoot].expire # types[ManifestTypeTimestamp].expire
    /\ saved["timestamp.json"].Signed.Expires.instant
         = initTime + types[ManifestTypeTimestamp].expire
    /\ saved["root.json"].Signed.Expires.instant = initTime + types[ManifestTypeRoot].expire

\* C14 as claimed (Spec): SetVersions iterates a manifest set that already
\* holds the Snapshot, so the ledger built during Init has a self-entry for the
\* Snapshot's filename, with version 0.
C14_SelfEntry ==
    ManifestTypeSnapshot \in DOMAIN manifests =>
        LET meta == manifests[ManifestTypeSnapshot].Meta
        IN  /\ types[ManifestTypeSnapshot].filename \in Keys(meta)
            /\ meta.kv[types[ManifestTypeSnapshot].filename].Version = 0

\* C14 as amended (Spec): in statement 3 SetVersions iterates the manifest
\* set {Root, Index}: the Snapshot is stored in the map only once the call has
\* returned, so the ledger built during Init has the entries of Root and Index
\* and no self-entry for the Snapshot's filename.
C14_LedgerBuiltBeforeStore ==
    /\ [](ManifestTypeSnapshot \in DOMAIN manifests =>
            LET meta == manifests[ManifestTypeSnapshot].Meta
            IN  /\ Keys(meta) = {types[ManifestTypeRoot].filename,
                                 types[ManifestTypeIndex].filename}
                /\ types[ManifestTypeSnapshot].filename \notin Keys(meta))
    /\ [][(pc = "snapshot" /\ pc' = "timestamp") =>
            /\ DOMAIN manifests = {ManifestTypeRoot, ManifestTypeIndex}
            /\ Keys(manifests'[ManifestTypeSnapshot].Meta)
                 = {types[k].filename : k \in DOMAIN manifests}]_vars

C14_Witness ==
    /\ pc = "timestamp"
    /\ manifests[ManifestTypeSnapshot].Version = 0
    /\ Cardinality(Keys(manifests[ManifestTypeSnapshot].Meta)) = 2
    /\ "snapshot.json" \notin Keys(manifests[ManifestTypeSnapshot].Meta)

\* the ledger s agrees with the manifest set ms: every file it records is the
\* file of a manifest of ms, with that manifest's version
LedgerCurrent(s, ms) ==
    \A f \in Keys(s.Meta) :
        /\ \E k \in DOMAIN ms : types[k].filename = f
        /\ \A k \in DOMAIN ms : types[k].filename = f => s.Meta.kv[f].Version = ms[k].Version

\* C15 (Spec): no statement of Init after SetSnapshot modifies the Snapshot,
\* so when the manifest set is handed to persistence the length recorded in
\* Timestamp.meta is the serialized length of the Snapshot persisted, and every
\* version in Snapshot.meta is the version of the manifest with that filename.
C15_SnapshotStableUntilPersistence ==
    /\ [](ManifestTypeTimestamp \in DOMAIN manifests =>
            /\ manifests[ManifestTypeTimestamp].Meta.kv[types[ManifestTypeSnapshot].filename].Length
                 = MarshalLen(manifests[ManifestTypeSnapshot])
            /\ hashed = {manifests[ManifestTypeSnapshot]}
            /\ LedgerCurrent(manifests[ManifestTypeSnapshot], manifests))
    /\ [](Succeeded =>
            LET files == [k \in DOMAIN manifests |-> saved[types[k].filename].Signed]
            IN  /\ files = manifests
                /\ files[ManifestTypeTimestamp].Meta.kv[types[ManifestTypeSnapshot].filename].Length
                     = MarshalLen(files[ManifestTypeSnapshot])
                /\ LedgerCurrent(files[ManifestTypeSnapshot], files))
    /\ [][(ManifestTypeSnapshot \in DOMAIN manifests) =>
            (manifests'[ManifestTypeSnapshot] = manifests[ManifestTypeSnapshot])]_vars

C15_Witness ==
    /\ Succeeded
    /\ Cardinality(Keys(manifests[ManifestTypeRoot].Roles)) = 4
    /\ saved["timestamp.json"].Signed.Meta.kv["snapshot.json"].Length
         = MarshalLen(saved["snapshot.json"].Signed)
    /\ saved["snapshot.json"].Signed.Meta.kv["root.json"].Version
         = saved["root.json"].Signed.Version

\* the range loop of Init has ended, with its error or without
LoopFailed == pc = "failed" /\ err.kind = "not initialized"
LoopPassed == (pc = "roles" /\ visited = DOMAIN types) \/ pc = "done" \/ err = PersistError

\* C17 as claimed (Spec): the outcome of Init does not depend on the order in
\* which the range loop visits the registry's kinds: in every order it fails or
\* succeeds alike, a failure names the same missing kind, and on success the
\* manifest set handed to persistence is the same.
C17_OrderIndependent ==
    /\ LoopFailed => err = InitInFixedOrder.err
    /\ LoopPassed => (InitInFixedOrder.err = NoError /\ manifests = InitInFixedOrder.manifests)

\* C17 as amended (Spec): in every visiting order Init fails or succeeds
\* alike, and on success the manifest set handed to persistence is the same;
\* on failure the error names a missing kind, the one the loop visited first:
\* the same kind in every order only when exactly one kind is missing.
C17_OrderIndependentUpToKindNamed ==
    /\ LoopFailed =>
         /\ InitInFixedOrder.err.kind = "not initialized"
         /\ err.ty \in MissingKinds
         /\ InitInFixedOrder.err.ty \in MissingKinds
         /\ Cardinality(MissingKinds) = 1 => err = InitInFixedOrder.err
    /\ LoopPassed =>
         /\ InitInFixedOrder.err = NoError
         /\ MissingKinds = {}
         /\ manifests = InitInFixedOrder.manifests
    /\ (pc = "roles" /\ visited = DOMAIN types) => (MissingKinds = {} /\ err = NoError)
    /\ Succeeded => {saved[f].Signed : f \in DOMAIN saved}
                       = {InitInFixedOrder.manifests[k] : k \in CoreKinds}

C17_Witness ==
    /\ LoopFailed
    /\ Cardinality(MissingKinds) = 2
    /\ InitInFixedOrder.err.kind = "not initialized"
    /\ err # InitInFixedOrder.err
    /\ visited # {}

\* the destination holds files of one call only
OneBootstrap(p) == \A f \in DOMAIN dst : f \in DOMAIN writers[p].files /\ dst[f] = writers[p].files[f]

Finished(a) == a.err = "none" /\ a.count = 0
\* replies the callback takes for the end of the drain
EndingReplies == {"not found", "scheduler request failed", "capture not exists"}

\* C18 (SpecDrain): DrainCapture repeats the drain request while the count of
\* tables reported is greater than 0 and stops at the first attempt that
\* reports 0 tables or when the timeout has elapsed; an endpoint answering 404,
\* "scheduler request failed" or "capture not exists" counts as a finished
\* drain (count 0) and ends the retrying at once.
C18_RetryUntilDrained ==
    /\ []((cdcPc \in {"attempt", "wait"} /\ attempts > 0) => ~Finished(lastAttempt))
    /\ [](cdcPc = "attempt" => (retryErr = "none" /\ attempts < RetryAttempts(apiTimeout)
                                 /\ (attempts > 0 => elapsed - DelaySeconds < apiTimeout)))
    /\ [](cdcPc \in {"retried", "returned"} =>
            \/ retryErr = "none" /\ attempts > 0 /\ Finished(lastAttempt)
            \/ retryErr # "none" /\ elapsed >= apiTimeout
                 /\ (attempts > 0 => ~Finished(lastAttempt)))
    /\ [](lastAttempt.reply \in EndingReplies =>
            /\ Finished(lastAttempt)
            /\ cdcPc \in {"retried", "returned"}
            /\ retryErr = "none")
    /\ [][(attempts' = attempts + 1 /\ Finished(lastAttempt')) =>
            (cdcPc' = "retried" /\ retryErr' = "none")]_vars
    /\ [][(attempts' = attempts + 1 /\ lastAttempt'.count > 0) => (cdcPc' = "wait")]_vars

C18_Witness ==
    /\ cdcPc = "returned"
    /\ attempts >= 2
    /\ lastAttempt.reply = "scheduler request failed"
    /\ Finished(lastAttempt)
    /\ tables > 0
    /\ retryErr = "none"

\* C19 as claimed (SpecDrain): DrainCapture reports a drain that did not
\* finish: it returns a non-nil error when the retries time out with tables
\* left or every request fails, and nil only when an attempt reported 0 tables.
C19_ErrorWhenUnfinished ==
    cdcPc = "returned" =>
        (cdcRet = "nil" <=> (attempts > 0 /\ Finished(lastAttempt)))

\* C19 as amended (SpecDrain): DrainCapture returns nil in every case; when
\* the retries end with an error (timed out with tables left, every request
\* failed, or a timeout that is not positive) it only logs that it gives up.
C19_AlwaysNil ==
    /\ [](cdcPc = "returned" => cdcRet = "nil")
    /\ [](cdcPc # "returned" => cdcRet = "none")
    /\ [][(cdcPc = "retried" /\ retryErr # "none" /\ cdcPc' = "returned") =>
            (cdcRet' = "nil")]_vars

C19_Witness ==
    /\ cdcPc = "returned"
    /\ retryErr = "operation timed out"
    /\ attempts >= 2
    /\ lastAttempt.count > 0
    /\ tables > 0
    /\ cdcRet = "nil"

\* C20 (SpecResign): ResignOwner never dereferences a missing owner: when
\* the resign request succeeded and GetOwner then fails (no capture is owner,
\* or the captures cannot be listed) it returns that error to its caller and
\* does not crash reading IsOwner of a nil capture.
C20_NoNilOwnerDereference ==
    /\ cdcPc # "panic"
    /\ (cdcPc = "returned" /\ lastAttempt.err = "none" /\ retryErr # "none") => cdcRet = retryErr

\* C21 (SpecPreRestart): PreRestart always terminates: with at most one CDC
\* server it returns nil without contacting CDC; otherwise every iteration of
\* its wait loop makes a new drain request, and the loop is left once the
\* count is 0 or the drain failed, whatever count the first request returned.
C21_PreRestartTerminates ==
    /\ []((cdcPc = "returned" /\ Len(captures) <= 1) => (attempts = 0 /\ cdcRet = "nil"))
    /\ [][(cdcPc = "loop" /\ lastAttempt.count # 0) =>
            (attempts' = attempts + 1 /\ (lastAttempt'.count = 0 => cdcPc' # "loop"))]_vars

====
